---------------------------- MODULE Spec2Model ----------------------------
(***************************************************************************)
(* Model of src/app.py: the Streamlit dashboard that sends school-meal     *)
(* artifacts (images, text, Excel, PDF) to a chat-completion model and     *)
(* renders the decoded reply and a synthesized report.                     *)
(*                                                                         *)
(* Text is modelled as a sequence of tokens.  A token is one character     *)
(* ("{", "}", ",", " ") or stands for a fragment of text:                  *)
(*   - a token of ScalarKeys stands for the JSON member  "<key>": <scalar> *)
(*   - a token of NestKeys stands for  "<key>":  and must be followed by   *)
(*     an object (a list value is abstracted to its single element)        *)
(*   - every other token is ordinary text (prose, an error message, ...).  *)
(***************************************************************************)
EXTENDS Integers, Sequences, FiniteSets, TLC

VARIABLES
    \* ---- the dashboard (one script run per user interaction) ----
    has_key,          \* "OPENAI_API_KEY" in st.secrets
    pc,               \* position of the running script / called function
    button,           \* the st.button that returned True in this run
    n_images,         \* len(uploaded_images)
    text_input,       \* value of the text area of the text tab
    uploaded_excel,   \* a workbook is uploaded in the Excel tab
    sheet,            \* cells of that workbook, column by column
    uploaded_pdf,     \* the PDF uploaded in the PDF tab
    fn,               \* the analysis function being executed
    max_retries,      \* its max_retries argument
    i,                \* loop variable of `for i in range(max_retries + 1)`
    attempts,         \* outcome of each model call of that function call
    calls,            \* calls of client.chat.completions.create in this run
    sleeps,           \* arguments of time.sleep, in order
    content,          \* res.choices[0].message.content of the last reply
    result,           \* value returned by the last analysis function
    img,              \* index of the image being processed (enumerate)
    analysis_results, \* list built by the image tab
    shown,            \* what the run has displayed, in order
    report,           \* value returned by generate_ai_report
    report_args,      \* the analysis_results argument of each report call
    executed,         \* components that ran in this run
    raised,           \* exception that left a component or a render block
    pdf_text,         \* value returned by extract_pdf_text
    all_text,         \* text blob built by the Excel tab
    \* ---- harness of the parse step ----
    reply,            \* a model reply handed to the parse step
    parsed            \* what the parse step returned for it

inputVars == <<n_images, text_input, uploaded_excel, sheet, uploaded_pdf>>

callVars == <<fn, max_retries, i, attempts, calls, sleeps, content, result>>

runVars == <<img, analysis_results, shown, report, report_args, executed,
             raised, pdf_text, all_text>>

parserVars == <<reply, parsed>>

appVars == <<has_key, pc, button, inputVars, callVars, runVars>>

vars == <<appVars, parserVars>>

-----------------------------------------------------------------------------
(* Text and JSON values *)

\* Tokens standing for a member "<key>": <scalar>
ScalarKeys == {"k", "error", "raw", "name", "ingredients", "allergen",
               "source", "risk_level", "menu_name", "likely_ingredients",
               "confidence", "source_ingredient", "notes",
               "high_risk_items", "total_allergens_found",
               "special_warnings"}

\* Tokens standing for "<key>": followed by an object
NestKeys == {"n", "menu_items", "allergens", "overall_assessment",
             "identified_menus", "allergen_analysis", "summary"}

EmptyMap == [x \in {} |-> x]

\* Decoded JSON values: a scalar, a Python str, or a mapping (dict).
NumVal == [t |-> "num", s |-> <<>>, m |-> EmptyMap]
StrVal(txt) == [t |-> "str", s |-> txt, m |-> EmptyMap]
ObjVal(map) == [t |-> "obj", s |-> <<>>, m |-> map]

\* d[k] = v on a dict (a repeated key keeps the last value)
Put(map, k, v) == [x \in (DOMAIN map) \cup {k} |-> IF x = k THEN v ELSE map[x]]

\* whitespace characters (str.strip() and the JSON grammar)
Whitespace == {" ", "\n"}

\* str.strip(): drop leading and trailing whitespace
RECURSIVE LStrip(_)
LStrip(s) == IF s # <<>> /\ Head(s) \in Whitespace THEN LStrip(Tail(s)) ELSE s

RECURSIVE RStrip(_)
RStrip(s) ==
    IF s # <<>> /\ s[Len(s)] \in Whitespace
    THEN RStrip(SubSeq(s, 1, Len(s) - 1))
    ELSE s

Strip(s) == RStrip(LStrip(s))

\* json.loads restricted to the texts the regular expression can hand it
\* (they start with "{"): a recursive-descent decoder of objects.
JsonFail == [ok |-> FALSE, pos |-> 0, val |-> EmptyMap]

RECURSIVE SkipWs(_, _)
SkipWs(s, p) ==
    IF p <= Len(s) /\ s[p] \in Whitespace THEN SkipWs(s, p + 1) ELSE p

RECURSIVE ParseObject(_, _)
RECURSIVE ParseMember(_, _, _)
RECURSIVE ParseAfterMember(_, _, _)

\* s[p] must open an object; pos is the index after its closing brace
ParseObject(s, p) ==
    IF p > Len(s) \/ s[p] # "{" THEN JsonFail
    ELSE LET q == SkipWs(s, p + 1) IN
         IF q <= Len(s) /\ s[q] = "}"
         THEN [ok |-> TRUE, pos |-> q + 1, val |-> EmptyMap]
         ELSE ParseMember(s, q, EmptyMap)

ParseMember(s, p, acc) ==
    IF p > Len(s) THEN JsonFail
    ELSE IF s[p] \in ScalarKeys
         THEN ParseAfterMember(s, p + 1, Put(acc, s[p], NumVal))
    ELSE IF s[p] \in NestKeys
         THEN LET r == ParseObject(s, SkipWs(s, p + 1)) IN
              IF r.ok
              THEN ParseAfterMember(s, r.pos, Put(acc, s[p], ObjVal(r.val)))
              ELSE JsonFail
    ELSE JsonFail

ParseAfterMember(s, p, acc) ==
    LET q == SkipWs(s, p) IN
    IF q > Len(s) THEN JsonFail
    ELSE IF s[q] = "}" THEN [ok |-> TRUE, pos |-> q + 1, val |-> acc]
    ELSE IF s[q] = "," THEN ParseMember(s, SkipWs(s, q + 1), acc)
    ELSE JsonFail

\* json.loads(s): the whole text must be one object (JSONDecodeError if not)
JsonLoads(s) ==
    LET r == ParseObject(s, SkipWs(s, 1)) IN
    IF r.ok /\ SkipWs(s, r.pos) = Len(s) + 1
    THEN [ok |-> TRUE, val |-> r.val]
    ELSE [ok |-> FALSE, val |-> EmptyMap]

\* re.search(r'\{.*\}', content, re.DOTALL): with DOTALL the greedy .* runs
\* from the first "{" to the last "}" of the text; no match when no "}"
\* follows the first "{".
FirstOpen(s) ==
    IF \E p \in 1..Len(s) : s[p] = "{"
    THEN CHOOSE p \in 1..Len(s) : s[p] = "{" /\ \A q \in 1..(p - 1) : s[q] # "{"
    ELSE 0

LastClose(s) ==
    IF \E p \in 1..Len(s) : s[p] = "}"
    THEN CHOOSE p \in 1..Len(s) :
             s[p] = "}" /\ \A q \in (p + 1)..Len(s) : s[q] # "}"
    ELSE 0

\* the non-greedy pattern \{.*?\}: the match ends at the first "}" that
\* follows the first "{"
JsonMatchLazy(s) ==
    LET a == FirstOpen(s)
        ends == {p \in 1..Len(s) : p > a /\ s[p] = "}"}
    IN  IF a > 0 /\ ends # {}
        THEN [found |-> TRUE,
              group |-> SubSeq(s, a, CHOOSE p \in ends : \A q \in ends : p <= q)]
        ELSE [found |-> FALSE, group |-> <<>>]

JsonMatch(s) ==
    IF FirstOpen(s) > 0 /\ LastClose(s) > FirstOpen(s)
    THEN [found |-> TRUE, group |-> SubSeq(s, FirstOpen(s), LastClose(s))]
    ELSE [found |-> FALSE, group |-> <<>>]

-----------------------------------------------------------------------------
(* The parse step of the three JSON-returning functions *)

\* The user-visible messages of the source, in ASCII:
\*   "API 호출 실패" -> "API call failed", "reply parse failed" -> "reply parse
\*   failed", "JSON parse error" -> "JSON parse error", "medical parse failed" ->
\*   "medical parse failed", "의학 정보 생성 실패: ..." -> "medical failed".

\* {"error": msg, "raw": content}
ErrorRaw(msg, txt) ==
    Put(Put(EmptyMap, "error", StrVal(<<msg>>)), "raw", StrVal(txt))

\* {"error": msg}
ErrorOnly(msg) == Put(EmptyMap, "error", StrVal(<<msg>>))

\* the parse step with "raw" holding the reply as received (no strip)
ParseAnalysisReplyRawUnstripped(c) ==
    LET stripped == Strip(c)
        json_match == JsonMatch(stripped)
        loaded == JsonLoads(json_match.group)
    IN  IF json_match.found
        THEN IF loaded.ok THEN loaded.val
             ELSE ErrorRaw("JSON parse error", c)
        ELSE ErrorRaw("reply parse failed", c)

\* analyze_food_image_with_ai / analyze_text_with_ai, from content.strip()
\* on: c is res.choices[0].message.content (a str)
ParseAnalysisReply(c) ==
    LET stripped == Strip(c)
        json_match == JsonMatch(stripped)
        loaded == JsonLoads(json_match.group)
    IN  IF json_match.found
        THEN IF loaded.ok THEN loaded.val
             ELSE ErrorRaw("JSON parse error", stripped)
        ELSE ErrorRaw("reply parse failed", stripped)

\* get_medical_info_for_allergen: JSONDecodeError is caught by
\* `except Exception`
ParseMedicalReply(c) ==
    LET stripped == Strip(c)
        json_match == JsonMatch(stripped)
        loaded == JsonLoads(json_match.group)
    IN  IF json_match.found
        THEN IF loaded.ok THEN loaded.val
             ELSE ErrorOnly("medical failed")
        ELSE ErrorOnly("medical parse failed")


-----------------------------------------------------------------------------
(* The model service and the retry loop of the two analysis functions *)

\* max_retries: int = 2
DefaultMaxRetries == 2

\* largest max_retries a direct call of an analysis function is given
MaxRetryBound == 3

\* exceptions of client.chat.completions.create
TransientErrors == {"RateLimitError", "APIConnectionError"}
FatalErrors == {"AuthenticationError"}

\* message.content is Optional[str]
NoneContent == [is_none |-> TRUE, text |-> <<>>]
TextContent(txt) == [is_none |-> FALSE, text |-> txt]

\* replies of the model service
ReplyImageFull ==
    <<"{", "menu_items", "{", "name", ",", "ingredients", ",", "allergens",
      "{", "allergen", ",", "risk_level", ",", "source", "}", "}", ",",
      "overall_assessment", "{", "high_risk_items", "}", "}">>
ReplyTextFull ==
    <<"{", "identified_menus", "{", "menu_name", ",", "likely_ingredients",
      ",", "allergen_analysis", "{", "allergen", ",", "confidence", ",",
      "source_ingredient", ",", "risk_level", "}", "}", ",", "summary", "{",
      "total_allergens_found", "}", "}">>
ReplyItemNoName == <<"{", "menu_items", "{", "ingredients", "}", "}">>
ReplyAllergenNoConfidence ==
    <<"{", "identified_menus", "{", "menu_name", ",", "likely_ingredients",
      ",", "allergen_analysis", "{", "allergen", "}", "}", "}">>
ReplyErrorKey == <<"{", "error", "}">>
ReplyProse == <<"sorry">>
ReplyBlank == <<" ", "\n">>
ReplyWrapped == <<"\n", "here", "{", "summary", "{", "}", "}", " ">>

Contents ==
    {TextContent(txt) : txt \in {ReplyImageFull, ReplyTextFull, ReplyItemNoName,
                                 ReplyAllergenNoConfidence, ReplyErrorKey,
                                 ReplyProse, ReplyBlank, ReplyWrapped}}
    \cup {NoneContent}

\* one displayed element
Show(what, n, txt) == [what |-> what, n |-> n, text |-> txt]

NoException == [exc |-> "", in |-> ""]

\* `except (RateLimitError, APIConnectionError)` catching every exception
IsTransientAny(e) == TRUE

\* except (RateLimitError, APIConnectionError):
IsTransient(e) == e \in {"RateLimitError", "APIConnectionError"}

\* giving up one iteration late (the loop then ends without a reply)
IsLastAttemptLate(idx, bound) == idx = bound + 1

\* if i == max_retries:
IsLastAttempt(idx, bound) == idx = bound

\* sleeping one second longer per attempt instead of doubling
LinearDelay(e) == e + 1

\* 2 ** i
RECURSIVE Pow2(_)
Pow2(e) == IF e = 0 THEN 1 ELSE 2 * Pow2(e - 1)

\* where control goes when an analysis function returns
ReturnPc(b) == IF b = "direct" THEN "returned" ELSE "render"

\* where control goes when an exception leaves an analysis function or a
\* render block: only the Excel tab wraps its body in try/except Exception;
\* elsewhere the script run ends and Streamlit shows the exception
RaisedPc(b) ==
    CASE b = "direct" -> "fn_raised"
      [] b = "excel" -> "tab4"
      [] OTHER -> "crashed"

RaisedShown(b, e) ==
    IF b = "direct" THEN shown
    ELSE IF b = "excel" THEN Append(shown, Show("excel_error", 0, <<e>>))
    ELSE Append(shown, Show("uncaught_exception", 0, <<e>>))

\* entry of analyze_food_image_with_ai / analyze_text_with_ai
EnterAnalysis(f, bound) ==
    /\ fn' = f
    /\ max_retries' = bound
    /\ i' = 0
    /\ attempts' = <<>>
    /\ content' = NoneContent
    /\ result' = EmptyMap
    /\ pc' = "call"

\* client.chat.completions.create(...) returns; break
ModelCallOK(c) ==
    /\ pc = "call"
    /\ i <= max_retries
    /\ calls' = calls + 1
    /\ attempts' = Append(attempts, [kind |-> "ok", content |-> c])
    /\ content' = c
    /\ pc' = "parse"
    /\ UNCHANGED <<has_key, button, inputVars, fn, max_retries, i, sleeps,
                   result, runVars, parserVars>>

\* client.chat.completions.create(...) raises e
ModelCallFail(e) ==
    /\ pc = "call"
    /\ i <= max_retries
    /\ calls' = calls + 1
    /\ attempts' = Append(attempts, [kind |-> e, content |-> NoneContent])
    /\ IF IsTransient(e)
       THEN IF IsLastAttempt(i, max_retries)
            THEN /\ result' = ErrorOnly("API call failed")
                 /\ pc' = ReturnPc(button)
                 /\ UNCHANGED <<i, sleeps, shown, raised>>
            ELSE /\ sleeps' = Append(sleeps, Pow2(i))
                 /\ i' = i + 1
                 /\ UNCHANGED <<pc, result, shown, raised>>
       ELSE /\ raised' = [exc |-> e, in |-> fn]
            /\ pc' = RaisedPc(button)
            /\ shown' = RaisedShown(button, e)
            /\ UNCHANGED <<i, sleeps, result>>
    /\ UNCHANGED <<has_key, button, inputVars, fn, max_retries, content,
                   img, analysis_results, report, report_args, executed,
                   pdf_text, all_text, parserVars>>

\* the second try block: content.strip(), re.search, json.loads; only
\* json.JSONDecodeError is caught, so None.strip() raises AttributeError
ParseStep ==
    /\ pc = "parse"
    /\ IF content.is_none
       THEN /\ raised' = [exc |-> "AttributeError", in |-> fn]
            /\ pc' = RaisedPc(button)
            /\ shown' = RaisedShown(button, "AttributeError")
            /\ UNCHANGED result
       ELSE /\ result' = ParseAnalysisReply(content.text)
            /\ pc' = ReturnPc(button)
            /\ UNCHANGED <<shown, raised>>
    /\ UNCHANGED <<has_key, button, inputVars, fn, max_retries, i, attempts,
                   calls, sleeps, content, img, analysis_results, report,
                   report_args, executed, pdf_text, all_text, parserVars>>

NoReport == [returned |-> FALSE, text |-> <<>>]
NoPdf == [readable |-> TRUE, pages |-> <<>>]
NoWorkbook == [readable |-> TRUE, columns |-> <<>>]
NotParsed == [by |-> "none", val |-> EmptyMap]

\* values of the variables a specification does not use
CallAtRest ==
    /\ fn = "none" /\ max_retries = DefaultMaxRetries /\ i = 0
    /\ attempts = <<>> /\ calls = 0 /\ sleeps = <<>>
    /\ content = NoneContent /\ result = EmptyMap

RunAtRest ==
    /\ img = 0 /\ analysis_results = <<>> /\ shown = <<>>
    /\ report = NoReport /\ report_args = <<>> /\ executed = {}
    /\ raised = NoException /\ pdf_text = <<>> /\ all_text = <<>>

InputsAtRest ==
    /\ n_images = 0 /\ text_input = <<>> /\ uploaded_excel = FALSE
    /\ sheet = NoWorkbook /\ uploaded_pdf = NoPdf

ParserAtRest == reply = <<>> /\ parsed = NotParsed

-----------------------------------------------------------------------------
(* Input normalizers and the report synthesizer *)

\* cells of a worksheet: text, a number, or nothing
StrCell(txt) == [kind |-> "str", text |-> txt]
NumCell == [kind |-> "num", text |-> "3"]
EmptyCell == [kind |-> "empty", text |-> ""]
NaN == [kind |-> "nan", text |-> "nan"]

\* pd.read_excel with its defaults: an empty cell and a cell holding one of
\* the default NA strings are read as NaN
DefaultNaStrings == {"", "NA"}

ToNa(cell) ==
    IF cell.kind = "empty" \/ (cell.kind = "str" /\ cell.text \in DefaultNaStrings)
    THEN NaN
    ELSE cell

\* df = pd.read_excel(uploaded_excel): a column that keeps a str cell has
\* dtype object, a column of numbers and NaN is numeric
ReadExcel(wb) ==
    [c \in 1..Len(wb.columns) |->
        LET cells == [r \in 1..Len(wb.columns[c].cells) |->
                         ToNa(wb.columns[c].cells[r])]
        IN  [header |-> wb.columns[c].header,
             cells |-> cells,
             dtype |-> IF \E r \in 1..Len(cells) : cells[r].kind = "str"
                       THEN "object"
                       ELSE "float64"]]

\* the column as it is, NaN cells kept
KeepNa(cells) == cells

\* df[col].dropna()
DropNa(cells) == SelectSeq(cells, LAMBDA cell : cell.kind # "nan")

\* "\n".join(values)
RECURSIVE JoinLines(_)
JoinLines(values) ==
    IF values = <<>> THEN <<>>
    ELSE IF Len(values) = 1 THEN <<values[1]>>
    ELSE <<values[1], "\n">> \o JoinLines(Tail(values))

\* .astype(str).values
AsStr(cells) == [r \in 1..Len(cells) |-> cells[r].text]

\* the loop body of `for col in df.columns`
ColumnText(col) ==
    IF col.dtype = "object"
    THEN <<"\n", "[", col.header, "]", "\n">>
         \o JoinLines(AsStr(DropNa(col.cells))) \o <<"\n">>
    ELSE <<>>

\* all_text after the loop over df.columns
RECURSIVE ExcelText(_)
ExcelText(df) ==
    IF df = <<>> THEN <<>>
    ELSE ColumnText(Head(df)) \o ExcelText(Tail(df))

\* the word "오류" of the messages and of the test `"오류" not in pdf_text`
ErrorWord == "oryu"

\* a page whose extract_text() gives a str, or None
PageText(txt) == [is_none |-> FALSE, text |-> txt]
PageNone == [is_none |-> TRUE, text |-> <<>>]

RECURSIVE ConcatPages(_)
ConcatPages(pages) ==
    IF pages = <<>> THEN <<>>
    ELSE Head(pages).text \o <<"\n">> \o ConcatPages(Tail(pages))

\* an extraction that reads a page without text as an empty page
ExtractSkippingNone(pdf) ==
    IF ~pdf.readable THEN <<"PDF", ErrorWord, "PdfReadError">>
    ELSE ConcatPages(pdf.pages)

\* extract_pdf_text: PdfReader may raise, and None + "\n" raises TypeError;
\* both are caught and turned into f"PDF 읽기 오류: {str(e)}"
extract_pdf_text(pdf) ==
    IF ~pdf.readable THEN <<"PDF", ErrorWord, "PdfReadError">>
    ELSE IF \E p \in 1..Len(pdf.pages) : pdf.pages[p].is_none
         THEN <<"PDF", ErrorWord, "TypeError">>
    ELSE ConcatPages(pdf.pages)

\* a test of the error prefix only, in place of the substring test
HasErrorPrefix(txt, word) == Len(txt) >= 2 /\ txt[1] = "PDF" /\ txt[2] = word

Contains(txt, word) == \E p \in 1..Len(txt) : txt[p] = word

\* generate_ai_report's `except Exception as e`: f"보고서 생성 실패: {str(e)}"
ReportFailure(e) == <<"report failed", e>>

\* generate_ai_report's try block on a reply: content.strip()
ReportText(c) ==
    IF c.is_none THEN ReportFailure("AttributeError") ELSE Strip(c.text)

\* keys the render blocks read with item[...] (KeyError when absent); every
\* other key is read with .get or tested with `in`
HasKeys(map, keys) == keys \subseteq DOMAIN map

\* image tab, lines 494-508
RenderImageOK(res) ==
    "menu_items" \in DOMAIN res =>
        LET item == res["menu_items"].m IN
        /\ HasKeys(item, {"name", "ingredients"})
        /\ "allergens" \in DOMAIN item =>
              HasKeys(item["allergens"].m, {"risk_level", "allergen", "source"})

\* text tab, lines 555-587
RenderTextOK(res) ==
    "identified_menus" \in DOMAIN res =>
        LET menu == res["identified_menus"].m IN
        /\ HasKeys(menu, {"menu_name", "likely_ingredients"})
        /\ "allergen_analysis" \in DOMAIN menu =>
              HasKeys(menu["allergen_analysis"].m,
                      {"confidence", "risk_level", "allergen", "source_ingredient"})

\* Excel tab, lines 641-652
RenderExcelOK(res) ==
    "identified_menus" \in DOMAIN res =>
        LET menu == res["identified_menus"].m IN
        "allergen_analysis" \in DOMAIN menu =>
            /\ HasKeys(menu, {"menu_name"})
            /\ HasKeys(menu["allergen_analysis"].m,
                       {"allergen", "confidence", "risk_level", "source_ingredient"})

\* PDF tab, lines 715-722: only .get and `in`
RenderPdfOK(res) == TRUE

\* result.get('error', ...) as displayed text
ErrorText(res) == res["error"].s

-----------------------------------------------------------------------------
(* Direct calls of the analysis functions, with any max_retries >= 0 *)

AnalysisFunctions == {"analyze_food_image_with_ai", "analyze_text_with_ai"}

InitFn ==
    /\ has_key = TRUE /\ pc = "fn_idle" /\ button = "direct"
    /\ InputsAtRest /\ CallAtRest /\ RunAtRest /\ ParserAtRest

\* analyze_text_with_ai(text, api_key, max_retries=bound) and its image twin
FnStart(f, bound) ==
    /\ pc = "fn_idle"
    /\ EnterAnalysis(f, bound)
    /\ executed' = executed \cup {f}
    /\ UNCHANGED <<has_key, button, inputVars, calls, sleeps, img,
                   analysis_results, shown, report, report_args, raised,
                   pdf_text, all_text, parserVars>>

NextFn ==
    \/ \E f \in AnalysisFunctions, bound \in 0..MaxRetryBound : FnStart(f, bound)
    \/ \E c \in Contents : ModelCallOK(c)
    \/ \E e \in TransientErrors \cup FatalErrors : ModelCallFail(e)
    \/ ParseStep

SpecFn == InitFn /\ [][NextFn]_vars

AllTransient(k) ==
    /\ Len(attempts) >= k
    /\ \A a \in 1..k : attempts[a].kind \in TransientErrors

\* C1: with B = max_retries, N <= B transient failures followed by a
\* success end the model-call stage with that reply after exactly N+1
\* calls; B+1 transient failures make the function return a mapping with an
\* "error" key, without raising, after exactly B+1 calls (and it gives up
\* no earlier).
C1_RetryBound ==
    /\ \A n \in 0..max_retries :
          (Len(attempts) = n + 1 /\ AllTransient(n) /\ attempts[n + 1].kind = "ok")
              => /\ pc \in {"parse", "returned", "fn_raised"}
                 /\ calls = n + 1
                 /\ content = attempts[n + 1].content
    /\ AllTransient(max_retries + 1)
          => /\ pc = "returned"
             /\ "error" \in DOMAIN result
             /\ raised = NoException
             /\ calls = max_retries + 1
    /\ (pc = "returned" /\ result = ErrorOnly("API call failed"))
          => AllTransient(max_retries + 1) /\ calls = max_retries + 1
    /\ calls <= max_retries + 1

\* two transient failures, then a success
C1_Witness ==
    /\ pc = "parse"
    /\ Len(attempts) = 3 /\ AllTransient(2) /\ attempts[3].kind = "ok"
    /\ max_retries >= 2

\* C3: a fatal failure at attempt k is the last attempt: the exception
\* leaves the function, no call and no sleep follows, k calls were made.
C3_FatalNotRetried ==
    \A k \in 1..Len(attempts) :
        attempts[k].kind \in FatalErrors
            => /\ k = Len(attempts)
               /\ calls = k
               /\ Len(sleeps) = k - 1
               /\ pc = "fn_raised"
               /\ raised = [exc |-> attempts[k].kind, in |-> fn]

\* a fatal failure after a transient one
C3_Witness ==
    /\ Len(attempts) = 2
    /\ attempts[1].kind \in TransientErrors
    /\ attempts[2].kind \in FatalErrors
    /\ pc = "fn_raised"

\* 1s, 2s, 4s, ... in seconds
DoublingSchedule == <<1, 2, 4, 8, 16, 32>>

\* attempts after which the loop slept: transient and not the last allowed
SleptAfter ==
    {k \in 1..Len(attempts) :
        attempts[k].kind \in TransientErrors /\ k - 1 < max_retries}

\* C11: the i-th transient failure (from 0) that is not the last allowed
\* attempt is followed by a sleep of exactly 2^i seconds; there is one sleep
\* per such failure and no other, so none before the first call and none
\* after the final failed attempt; every sleep is followed by a call; the
\* default bound of 2 makes at most 3 calls and 2 sleeps.
C11_BackoffSchedule ==
    /\ Len(sleeps) <= Len(DoublingSchedule)
    /\ sleeps = SubSeq(DoublingSchedule, 1, Len(sleeps))
    /\ SleptAfter = 1..Len(sleeps)
    /\ calls = 0 => sleeps = <<>>
    /\ pc = "call" => Len(sleeps) = calls
    /\ (pc # "call" /\ calls > 0) => Len(sleeps) = calls - 1
    /\ (pc = "returned" /\ result = ErrorOnly("API call failed"))
          => Len(sleeps) = max_retries
    /\ max_retries = DefaultMaxRetries
          => calls <= 3 /\ Len(sleeps) <= 2

\* three transient failures of a call allowed three retries: the loop has
\* slept 1, 2 and 4 seconds and is about to call again
C11_Witness ==
    /\ max_retries = 3 /\ pc = "call"
    /\ Len(attempts) = 3 /\ AllTransient(3)
    /\ sleeps = <<1, 2, 4>>


-----------------------------------------------------------------------------
(* The dashboard: one run of the script per user interaction *)

\* most images uploaded at once
MaxImages == 2

\* most pages of an uploaded PDF
MaxPages == 2

Buttons == {"none", "medical", "images", "text", "excel", "pdf"}

TextInputs == {<<>>, <<" ">>, <<"menu">>}

Column(h, cells) == [header |-> h, cells |-> cells]

\* workbooks uploaded to the dashboard
AppWorkbooks ==
    {[readable |-> FALSE, columns |-> <<>>],
     [readable |-> TRUE,
      columns |-> <<Column("menu", <<StrCell("ssalbap"), StrCell(""), StrCell("kimchi")>>),
                    Column("kcal", <<NumCell, NumCell, EmptyCell>>)>>]}

Pages == {PageText(<<"menu">>), PageText(<<"menu", ErrorWord>>), PageNone}

PdfFiles ==
    {[readable |-> FALSE, pages |-> <<>>]}
    \cup {[readable |-> TRUE, pages |-> pages] :
            pages \in UNION {[1..len -> Pages] : len \in 0..MaxPages}}

\* the script treats the secret as present although it is not
KeyMissingIgnored == FALSE

\* if "OPENAI_API_KEY" not in st.secrets:
KeyMissing == ~has_key

Init ==
    /\ has_key \in BOOLEAN
    /\ pc = "idle" /\ button = "none"
    /\ InputsAtRest /\ CallAtRest /\ RunAtRest /\ ParserAtRest

\* a widget interaction reruns the script from the top; at most one button
\* returns True, and a button exists only where its uploader holds a file
\* (the Excel button only after a successful read_excel)
StartRun(b) ==
    /\ pc = "idle"
    /\ button' = b
    /\ n_images' \in (IF b = "images" THEN 1..MaxImages ELSE {0})
    /\ text_input' \in (IF b = "text" THEN TextInputs ELSE {<<>>})
    /\ uploaded_excel' \in (IF b = "excel" THEN {TRUE} ELSE BOOLEAN)
    /\ sheet' \in (IF uploaded_excel'
                   THEN {wb \in AppWorkbooks : b = "excel" => wb.readable}
                   ELSE {NoWorkbook})
    /\ uploaded_pdf' \in (IF b = "pdf" THEN PdfFiles ELSE {NoPdf})
    /\ pc' = "gate"
    /\ UNCHANGED <<has_key, callVars, runVars, parserVars>>

\* the script run is over (its last line, st.stop() or an uncaught
\* exception); nothing of it is kept for the next run
EndRun ==
    /\ pc \in {"done", "stopped", "crashed"}
    /\ pc' = "idle" /\ button' = "none"
    /\ n_images' = 0 /\ text_input' = <<>> /\ uploaded_excel' = FALSE
    /\ sheet' = NoWorkbook /\ uploaded_pdf' = NoPdf
    /\ fn' = "none" /\ max_retries' = DefaultMaxRetries /\ i' = 0
    /\ attempts' = <<>> /\ calls' = 0 /\ sleeps' = <<>>
    /\ content' = NoneContent /\ result' = EmptyMap
    /\ img' = 0 /\ analysis_results' = <<>> /\ shown' = <<>>
    /\ report' = NoReport /\ report_args' = <<>> /\ executed' = {}
    /\ raised' = NoException /\ pdf_text' = <<>> /\ all_text' = <<>>
    /\ UNCHANGED <<has_key, parserVars>>

\* lines 383-388: st.error(...); st.stop()
CredentialGate ==
    /\ pc = "gate"
    /\ IF KeyMissing
       THEN /\ shown' = Append(shown, Show("config_error", 0, <<>>))
            /\ pc' = "stopped"
       ELSE /\ pc' = "sidebar"
            /\ UNCHANGED shown
    /\ UNCHANGED <<has_key, button, inputVars, callVars, img, analysis_results,
                   report, report_args, executed, raised, pdf_text, all_text,
                   parserVars>>

\* the sidebar when its button was not pressed
SidebarSkip ==
    /\ pc = "sidebar" /\ button # "medical"
    /\ pc' = "tab1"
    /\ UNCHANGED <<has_key, button, inputVars, callVars, runVars, parserVars>>

\* display of the value get_medical_info_for_allergen returned (406-434)
ShowMedical(info) ==
    IF "error" \notin DOMAIN info
    THEN Show("medical_info", 0, <<>>)
    ELSE Show("medical_error", 0, ErrorText(info))

\* get_medical_info_for_allergen when the model replies: one call, and
\* `except Exception` turns None.strip() into an error mapping
MedicalInfoOK(c) ==
    /\ pc = "sidebar" /\ button = "medical"
    /\ calls' = calls + 1
    /\ executed' = executed \cup {"get_medical_info_for_allergen"}
    /\ result' = IF c.is_none THEN ErrorOnly("medical failed")
                 ELSE ParseMedicalReply(c.text)
    /\ shown' = Append(shown, ShowMedical(result'))
    /\ pc' = "tab1"
    /\ UNCHANGED <<has_key, button, inputVars, fn, max_retries, i, attempts,
                   sleeps, content, img, analysis_results, report,
                   report_args, raised, pdf_text, all_text, parserVars>>

\* get_medical_info_for_allergen when the model call raises e
MedicalInfoFail(e) ==
    /\ pc = "sidebar" /\ button = "medical"
    /\ calls' = calls + 1
    /\ executed' = executed \cup {"get_medical_info_for_allergen"}
    /\ result' = ErrorOnly("medical failed")
    /\ shown' = Append(shown, ShowMedical(result'))
    /\ pc' = "tab1"
    /\ UNCHANGED <<has_key, button, inputVars, fn, max_retries, i, attempts,
                   sleeps, content, img, analysis_results, report,
                   report_args, raised, pdf_text, all_text, parserVars>>

\* ---- tab 1: images ----

Tab1Skip ==
    /\ pc = "tab1" /\ button # "images"
    /\ pc' = "tab2"
    /\ UNCHANGED <<has_key, button, inputVars, callVars, runVars, parserVars>>

\* lines 476-480
Tab1Start ==
    /\ pc = "tab1" /\ button = "images"
    /\ analysis_results' = <<>>
    /\ img' = 0
    /\ pc' = "img_loop"
    /\ UNCHANGED <<has_key, button, inputVars, callVars, shown, report,
                   report_args, executed, raised, pdf_text, all_text,
                   parserVars>>

\* an image loop that hands over to the report step as soon as one result
\* exists, while later images are still waiting
ImageLoopReportEarly ==
    /\ pc = "img_loop"
    /\ IF img < n_images /\ analysis_results = <<>>
       THEN /\ EnterAnalysis("analyze_food_image_with_ai", DefaultMaxRetries)
            /\ executed' = executed \cup {"analyze_food_image_with_ai"}
            /\ UNCHANGED shown
       ELSE /\ IF analysis_results # <<>>
               THEN /\ shown' = Append(shown, Show("images_done", Len(analysis_results), <<>>))
                    /\ pc' = "report"
               ELSE /\ pc' = "tab2"
                    /\ UNCHANGED shown
            /\ UNCHANGED <<fn, max_retries, i, attempts, content, result, executed>>
    /\ UNCHANGED <<has_key, button, inputVars, calls, sleeps, img,
                   analysis_results, report, report_args, raised, pdf_text,
                   all_text, parserVars>>

\* `for i, image in enumerate(uploaded_images)`: the next image is handed to
\* analyze_food_image_with_ai; after the last one, lines 512-517
ImageLoop ==
    /\ pc = "img_loop"
    /\ IF img < n_images
       THEN /\ EnterAnalysis("analyze_food_image_with_ai", DefaultMaxRetries)
            /\ executed' = executed \cup {"analyze_food_image_with_ai"}
            /\ UNCHANGED shown
       ELSE /\ IF analysis_results # <<>>
               THEN /\ shown' = Append(shown, Show("images_done", Len(analysis_results), <<>>))
                    /\ pc' = "report"
               ELSE /\ pc' = "tab2"
                    /\ UNCHANGED shown
            /\ UNCHANGED <<fn, max_retries, i, attempts, content, result, executed>>
    /\ UNCHANGED <<has_key, button, inputVars, calls, sleeps, img,
                   analysis_results, report, report_args, raised, pdf_text,
                   all_text, parserVars>>

\* lines 489-510
RenderImage ==
    /\ pc = "render" /\ button = "images"
    /\ IF "error" \notin DOMAIN result
       THEN /\ analysis_results' = Append(analysis_results, result)
            /\ IF RenderImageOK(result)
               THEN /\ shown' = Append(shown, Show("image_result", img + 1, <<>>))
                    /\ img' = img + 1
                    /\ pc' = "img_loop"
                    /\ UNCHANGED raised
               ELSE /\ raised' = [exc |-> "KeyError", in |-> "render"]
                    /\ pc' = RaisedPc(button)
                    /\ shown' = RaisedShown(button, "KeyError")
                    /\ UNCHANGED img
       ELSE /\ shown' = Append(shown, Show("image_error", img + 1, ErrorText(result)))
            /\ img' = img + 1
            /\ pc' = "img_loop"
            /\ UNCHANGED <<analysis_results, raised>>
    /\ UNCHANGED <<has_key, button, inputVars, callVars, report, report_args,
                   executed, pdf_text, all_text, parserVars>>

\* ---- the report step of the four tabs ----

\* the first argument of generate_ai_report
ReportArgument == IF button = "images" THEN analysis_results ELSE <<result>>

\* the tab after the one whose button was pressed
AfterTab(b) ==
    CASE b = "images" -> "tab2"
      [] b = "text" -> "tab3"
      [] b = "excel" -> "tab4"
      [] OTHER -> "done"

\* generate_ai_report returning txt, then st.text_area and st.download_button
Reported(txt) ==
    /\ calls' = calls + 1
    /\ executed' = executed \cup {"generate_ai_report"}
    /\ report_args' = Append(report_args, ReportArgument)
    /\ report' = [returned |-> TRUE, text |-> txt]
    /\ shown' = Append(shown, Show("report", 0, txt))
    /\ pc' = AfterTab(button)
    /\ UNCHANGED <<has_key, button, inputVars, fn, max_retries, i, attempts,
                   sleeps, content, result, img, analysis_results, raised,
                   pdf_text, all_text, parserVars>>

\* generate_ai_report, lines 290-297: the model replies
GenerateReportOK(c) ==
    /\ pc = "report"
    /\ Reported(ReportText(c))

\* generate_ai_report, lines 298-299: the model call raises e
GenerateReportFail(e) ==
    /\ pc = "report"
    /\ Reported(ReportFailure(e))

\* ---- tab 2: text ----

Tab2Skip ==
    /\ pc = "tab2" /\ button # "text"
    /\ pc' = "tab3"
    /\ UNCHANGED <<has_key, button, inputVars, callVars, runVars, parserVars>>

\* lines 546-549 and 606-607
Tab2Start ==
    /\ pc = "tab2" /\ button = "text"
    /\ IF Strip(text_input) # <<>>
       THEN /\ EnterAnalysis("analyze_text_with_ai", DefaultMaxRetries)
            /\ executed' = executed \cup {"analyze_text_with_ai"}
            /\ UNCHANGED shown
       ELSE /\ shown' = Append(shown, Show("text_missing", 0, <<>>))
            /\ pc' = "tab3"
            /\ UNCHANGED <<fn, max_retries, i, attempts, content, result, executed>>
    /\ UNCHANGED <<has_key, button, inputVars, calls, sleeps, img,
                   analysis_results, report, report_args, raised, pdf_text,
                   all_text, parserVars>>

\* the render block of the text, Excel and PDF tabs: on a result without
\* "error" the keys are read and the report step follows; a KeyError leaves
\* the block
RenderSingle(keys_ok, next_tab) ==
    /\ IF "error" \notin DOMAIN result
       THEN IF keys_ok
            THEN /\ shown' = Append(shown, Show("analysis_result", 0, <<>>))
                 /\ pc' = "report"
                 /\ UNCHANGED raised
            ELSE /\ raised' = [exc |-> "KeyError", in |-> "render"]
                 /\ pc' = RaisedPc(button)
                 /\ shown' = RaisedShown(button, "KeyError")
       ELSE /\ shown' = Append(shown, Show("analysis_error", 0, ErrorText(result)))
            /\ pc' = next_tab
            /\ UNCHANGED raised
    /\ UNCHANGED <<has_key, button, inputVars, callVars, img, analysis_results,
                   report, report_args, executed, pdf_text, all_text,
                   parserVars>>

\* lines 551-605
RenderText ==
    /\ pc = "render" /\ button = "text"
    /\ RenderSingle(RenderTextOK(result), "tab3")

\* ---- tab 3: Excel ----

Tab3Skip ==
    /\ pc = "tab3" /\ ~uploaded_excel
    /\ pc' = "tab4"
    /\ UNCHANGED <<has_key, button, inputVars, callVars, runVars, parserVars>>

\* lines 620-635 and 685-686: read_excel runs in every run that holds a
\* workbook; the button builds all_text and calls analyze_text_with_ai
Tab3Read ==
    /\ pc = "tab3" /\ uploaded_excel
    /\ IF ~sheet.readable
       THEN /\ shown' = Append(shown, Show("excel_error", 0, <<"read_excel">>))
            /\ executed' = executed \cup {"read_excel"}
            /\ pc' = "tab4"
            /\ UNCHANGED <<fn, max_retries, i, attempts, content, result, all_text>>
       ELSE IF button = "excel"
            THEN /\ all_text' = ExcelText(ReadExcel(sheet))
                 /\ EnterAnalysis("analyze_text_with_ai", DefaultMaxRetries)
                 /\ executed' = executed \cup {"read_excel", "analyze_text_with_ai"}
                 /\ shown' = Append(shown, Show("excel_preview", 0, <<>>))
            ELSE /\ shown' = Append(shown, Show("excel_preview", 0, <<>>))
                 /\ executed' = executed \cup {"read_excel"}
                 /\ pc' = "tab4"
                 /\ UNCHANGED <<fn, max_retries, i, attempts, content, result, all_text>>
    /\ UNCHANGED <<has_key, button, inputVars, calls, sleeps, img,
                   analysis_results, report, report_args, raised, pdf_text,
                   parserVars>>

\* lines 637-683
RenderExcel ==
    /\ pc = "render" /\ button = "excel"
    /\ RenderSingle(RenderExcelOK(result), "tab4")

\* ---- tab 4: PDF ----

Tab4Skip ==
    /\ pc = "tab4" /\ button # "pdf"
    /\ pc' = "done"
    /\ UNCHANGED <<has_key, button, inputVars, callVars, runVars, parserVars>>

\* lines 699-709 and 741-742
Tab4Extract ==
    /\ pc = "tab4" /\ button = "pdf"
    /\ pdf_text' = extract_pdf_text(uploaded_pdf)
    /\ IF ~Contains(pdf_text', ErrorWord)
       THEN /\ shown' = Append(shown, Show("pdf_preview", 0, pdf_text'))
            /\ EnterAnalysis("analyze_text_with_ai", DefaultMaxRetries)
            /\ executed' = executed \cup {"extract_pdf_text", "analyze_text_with_ai"}
       ELSE /\ shown' = Append(shown, Show("pdf_error", 0, pdf_text'))
            /\ executed' = executed \cup {"extract_pdf_text"}
            /\ pc' = "done"
            /\ UNCHANGED <<fn, max_retries, i, attempts, content, result>>
    /\ UNCHANGED <<has_key, button, inputVars, calls, sleeps, img,
                   analysis_results, report, report_args, raised, all_text,
                   parserVars>>

\* lines 711-740
RenderPdf ==
    /\ pc = "render" /\ button = "pdf"
    /\ RenderSingle(RenderPdfOK(result), "done")

Next ==
    \/ \E b \in Buttons : StartRun(b)
    \/ EndRun
    \/ CredentialGate
    \/ SidebarSkip
    \/ \E c \in Contents : MedicalInfoOK(c)
    \/ \E e \in TransientErrors \cup FatalErrors : MedicalInfoFail(e)
    \/ Tab1Skip \/ Tab1Start \/ ImageLoop \/ RenderImage
    \/ \E c \in Contents : ModelCallOK(c)
    \/ \E e \in TransientErrors \cup FatalErrors : ModelCallFail(e)
    \/ ParseStep
    \/ \E c \in Contents : GenerateReportOK(c)
    \/ \E e \in TransientErrors \cup FatalErrors : GenerateReportFail(e)
    \/ Tab2Skip \/ Tab2Start \/ RenderText
    \/ Tab3Skip \/ Tab3Read \/ RenderExcel
    \/ Tab4Skip \/ Tab4Extract \/ RenderPdf

Spec == Init /\ [][Next]_vars


-----------------------------------------------------------------------------
(* Properties of the dashboard *)

Components ==
    AnalysisFunctions
    \cup {"generate_ai_report", "get_medical_info_for_allergen", "extract_pdf_text"}

\* C2: no exception leaves analyze_food_image_with_ai, analyze_text_with_ai,
\* generate_ai_report, get_medical_info_for_allergen or extract_pdf_text:
\* every failure comes back to the presentation layer as a value.
C2_NoExceptionEscapes == raised.in \notin Components

\* C6: generate_ai_report always returns a non-empty text, whatever the
\* model call does.
C6_ReportNonEmpty == report.returned => report.text # <<>>

\* C7: without the OPENAI_API_KEY secret the run shows a configuration error
\* and halts at the gate: no component executes and no model call is made,
\* whichever button was pressed.
C7_CredentialGate ==
    ~has_key =>
        /\ calls = 0
        /\ executed = {}
        /\ pc \in {"idle", "gate", "stopped"}
        /\ pc = "stopped" => shown = <<Show("config_error", 0, <<>>)>>

\* the image button was pressed without the secret and the run has halted
C7_Witness ==
    /\ ~has_key /\ pc = "stopped"
    /\ button = "images" /\ n_images >= 1
    /\ shown = <<Show("config_error", 0, <<>>)>>

ImageErrorsShown ==
    Len(SelectSeq(shown, LAMBDA e : e.what = "image_error"))

\* C8: when the image action is over every image was attempted, each failed
\* image has its own error, and if any image succeeded generate_ai_report
\* was called exactly once with exactly the successful results in order.
C8_PartialSuccess ==
    (button = "images" /\ pc \in {"tab2", "tab3", "tab4", "done", "crashed"})
        => /\ img = n_images
           /\ ImageErrorsShown = n_images - Len(analysis_results)
           /\ analysis_results # <<>> => report_args = <<analysis_results>>
           /\ analysis_results = <<>> => report_args = <<>>

\* C9: a decoded result without a top-level "error" key is rendered whatever
\* nested keys are absent: no render block raises KeyError.
C9_MissingKeysTolerated == raised.exc # "KeyError"

\* the per-image outcomes displayed so far, in display order
ImageOutcomes ==
    SelectSeq(shown, LAMBDA e : e.what \in {"image_result", "image_error"})

\* exactly the images 1..k have returned and were displayed, in upload order
ReturnedInOrder(k) ==
    /\ Len(ImageOutcomes) = k
    /\ \A j \in 1..k : ImageOutcomes[j].n = j

\* C12: in an image action every step makes at most one model call; a call
\* of the analysis of image img+1 (retries included) is made only when
\* exactly the images 1..img have returned, in upload order; the report call
\* is made only when all n_images images have returned, and only once.
C12_StrictlySequential ==
    [][(button = "images" /\ calls' > calls)
          => /\ calls' = calls + 1
             /\ \/ /\ pc = "call"
                   /\ fn = "analyze_food_image_with_ai"
                   /\ img < n_images
                   /\ ReturnedInOrder(img)
                   /\ ~report.returned
                   /\ executed' = executed
                \/ /\ pc = "report"
                   /\ img = n_images
                   /\ ReturnedInOrder(n_images)
                   /\ ~report.returned
                   /\ report'.returned]_vars

\* two images: the first needed a retry, the second failed, and the report
\* was written after both had returned
C12_Witness ==
    /\ button = "images" /\ n_images = 2 /\ img = 2
    /\ report.returned
    /\ Len(analysis_results) = 1
    /\ ReturnedInOrder(2)
    /\ ImageOutcomes[1].what = "image_result"
    /\ ImageOutcomes[2].what = "image_error"
    /\ calls >= 4

\* reading the file or extracting the text of one of its pages fails
ExtractionFails(pdf) ==
    \/ ~pdf.readable
    \/ \E p \in 1..Len(pdf.pages) : pdf.pages[p].is_none

\* C13: when the PDF button was pressed on a file whose reading or page
\* extraction fails, extract_pdf_text has raised nothing and has returned a
\* text that begins with the error indicator; the tab has displayed exactly
\* that text as an error, the run has gone on to its end, and no analysis
\* call and no report call was made.
C13_PdfInputErrors ==
    (button = "pdf" /\ ExtractionFails(uploaded_pdf)
        /\ "extract_pdf_text" \in executed)
        => /\ raised = NoException
           /\ Len(pdf_text) >= 2
           /\ SubSeq(pdf_text, 1, 2) = <<"PDF", ErrorWord>>
           /\ shown # <<>>
           /\ shown[Len(shown)] = Show("pdf_error", 0, pdf_text)
           /\ pc = "done"
           /\ calls = 0
           /\ executed \cap {"analyze_text_with_ai", "generate_ai_report"} = {}
           /\ ~report.returned

\* a two-page PDF whose second page has no text value: the error was shown
C13_Witness ==
    /\ button = "pdf" /\ pc = "done"
    /\ uploaded_pdf = [readable |-> TRUE,
                       pages |-> <<PageText(<<"menu">>), PageNone>>]
    /\ pdf_text = <<"PDF", ErrorWord, "TypeError">>
    /\ shown[Len(shown)].what = "pdf_error"

\* the error word occurs somewhere in the text
WordOccurs(txt) == \E p \in 1..Len(txt) : txt[p] = ErrorWord

\* every page of a readable file has a text value
ExtractionSucceeds(pdf) ==
    pdf.readable /\ \A p \in 1..Len(pdf.pages) : ~pdf.pages[p].is_none

\* the text of the pages themselves holds the error word
OwnTextHasWord(pdf) ==
    \E p \in 1..Len(pdf.pages) : WordOccurs(pdf.pages[p].text)

\* C14: once the PDF button has run extract_pdf_text, analyze_text_with_ai
\* was called if and only if the returned text holds the error word nowhere.
\* So a PDF that was extracted without failure but whose own text holds the
\* word is shown as an error and not analysed, and every failed extraction
\* is shown as an error.
C14_SubstringTest ==
    (button = "pdf" /\ "extract_pdf_text" \in executed)
        => /\ ("analyze_text_with_ai" \in executed) <=> ~WordOccurs(pdf_text)
           /\ WordOccurs(pdf_text)
                 => /\ pc = "done" /\ calls = 0
                    /\ shown[Len(shown)] = Show("pdf_error", 0, pdf_text)
           /\ ~WordOccurs(pdf_text)
                 => \E k \in 1..Len(shown) :
                        shown[k] = Show("pdf_preview", 0, pdf_text)
           /\ (ExtractionSucceeds(uploaded_pdf) /\ OwnTextHasWord(uploaded_pdf))
                 => /\ WordOccurs(pdf_text)
                    /\ SubSeq(pdf_text, 1, 2) # <<"PDF", ErrorWord>>
           /\ ~ExtractionSucceeds(uploaded_pdf) => WordOccurs(pdf_text)

\* a one-page PDF extracted without failure whose text holds the error
\* word: its text was shown as an error and no call was made
C14_Witness ==
    /\ button = "pdf" /\ pc = "done"
    /\ uploaded_pdf = [readable |-> TRUE,
                       pages |-> <<PageText(<<"menu", ErrorWord>>)>>]
    /\ pdf_text = <<"menu", ErrorWord, "\n">>
    /\ shown[Len(shown)] = Show("pdf_error", 0, pdf_text)
    /\ calls = 0

\* the buttons whose pipeline analyses one text and then reports on it
SingleTextButtons == {"text", "excel", "pdf"}

\* analyze_text_with_ai was called in this run and has returned a mapping
AnalysisReturned ==
    /\ "analyze_text_with_ai" \in executed
    /\ pc \notin {"call", "parse"}
    /\ raised.in # "analyze_text_with_ai"

\* C15: in a text, Excel or PDF action generate_ai_report is called at most
\* once and only after the analysis has returned; when the run is over it
\* was called if and only if the returned mapping has no top-level "error"
\* key (so a reply decoding to an object with an "error" key gives no
\* report); the report call is one model call without retry, and the
\* action makes at most (max_retries + 1) + 1 model calls.
C15_ReportOrdering ==
    button \in SingleTextButtons
        => /\ Len(report_args) <= 1
           /\ report.returned = (Len(report_args) = 1)
           /\ (pc = "report" \/ report.returned)
                 => AnalysisReturned /\ "error" \notin DOMAIN result
           /\ report.returned => calls = Len(attempts) + 1
           /\ ~report.returned => calls = Len(attempts)
           /\ calls <= (max_retries + 1) + 1
           /\ (AnalysisReturned /\ pc \in {"done", "crashed"})
                 => (report.returned <=> "error" \notin DOMAIN result)

-----------------------------------------------------------------------------
(* Harness of the spreadsheet normalizer: the handler of the Excel button on
   any workbook of two columns *)

MaxRows == 3

MenuCells ==
    {StrCell("ssalbap"), StrCell("kimchi"), StrCell(""), StrCell("NA"),
     EmptyCell, NumCell}

KcalCells == {StrCell("kimchi"), EmptyCell, NumCell}

HarnessWorkbooks ==
    {[readable |-> TRUE,
      columns |-> <<Column("menu", menu), Column("kcal", kcal)>>] :
        <<menu, kcal>> \in UNION {[1..rows -> MenuCells] \X [1..rows -> KcalCells] :
                                     rows \in 0..MaxRows}}

InitExcel ==
    /\ has_key = TRUE /\ pc = "tab3" /\ button = "excel"
    /\ n_images = 0 /\ text_input = <<>> /\ uploaded_excel = TRUE
    /\ sheet \in HarnessWorkbooks
    /\ uploaded_pdf = NoPdf
    /\ CallAtRest /\ RunAtRest /\ ParserAtRest

NextExcel == Tab3Read

SpecExcel == InitExcel /\ [][NextExcel]_vars

\* the column [rice, "", kimchi] next to a numeric column
ExampleWorkbook ==
    [readable |-> TRUE,
     columns |-> <<Column("menu", <<StrCell("ssalbap"), StrCell(""), StrCell("kimchi")>>),
                   Column("kcal", <<NumCell, NumCell, NumCell>>)>>]

HeaderLine(h) == <<"\n", "[", h, "]", "\n">>

RECURSIVE Lines(_)
Lines(texts) ==
    IF texts = <<>> THEN <<>>
    ELSE IF Len(texts) = 1 THEN texts
    ELSE <<Head(texts), "\n">> \o Lines(Tail(texts))

CellTexts(cells) == [r \in 1..Len(cells) |-> cells[r].text]

\* C10 as stated: the blob holds, per text-typed column, the header and the
\* column's non-empty string cells, and nothing else
NonEmptyString(cell) == cell.kind = "str" /\ cell.text # ""

RECURSIVE ClaimedBlob(_)
ClaimedBlob(columns) ==
    IF columns = <<>> THEN <<>>
    ELSE LET col == Head(columns)
             strings == SelectSeq(col.cells, NonEmptyString)
         IN  (IF strings # <<>>
              THEN HeaderLine(col.header) \o Lines(CellTexts(strings)) \o <<"\n">>
              ELSE <<>>)
             \o ClaimedBlob(Tail(columns))

Missing(cell) ==
    cell.kind = "empty" \/ (cell.kind = "str" /\ cell.text \in {"", "NA"})

Present(cell) == ~Missing(cell)

RECURSIVE ExpectedBlob(_)
ExpectedBlob(columns) ==
    IF columns = <<>> THEN <<>>
    ELSE LET col == Head(columns)
             kept == SelectSeq(col.cells, Present)
         IN  (IF \E r \in 1..Len(kept) : kept[r].kind = "str"
              THEN HeaderLine(col.header) \o Lines(CellTexts(kept)) \o <<"\n">>
              ELSE <<>>)
             \o ExpectedBlob(Tail(columns))

-----------------------------------------------------------------------------
(* Harness of the parse step: any reply over a small alphabet *)

MaxReplyLen == 5

ReplyAlphabet == {"{", "}", "k", "n", " ", "x"}

ReplyTexts == UNION {[1..len -> ReplyAlphabet] : len \in 0..MaxReplyLen}

InitParser ==
    /\ reply \in ReplyTexts
    /\ parsed = NotParsed
    /\ has_key = TRUE /\ pc = "harness" /\ button = "direct"
    /\ InputsAtRest /\ CallAtRest /\ RunAtRest

\* the parse step of analyze_text_with_ai / analyze_food_image_with_ai
ParseAnalysis ==
    /\ parsed.by = "none"
    /\ parsed' = [by |-> "analysis", val |-> ParseAnalysisReply(reply)]
    /\ UNCHANGED <<reply, appVars>>

\* the parse step of get_medical_info_for_allergen
ParseMedical ==
    /\ parsed.by = "none"
    /\ parsed' = [by |-> "medical", val |-> ParseMedicalReply(reply)]
    /\ UNCHANGED <<reply, appVars>>

NextParser == ParseAnalysis \/ ParseMedical

SpecParser == InitParser /\ [][NextParser]_vars

\* a..b is a brace-delimited span of s that decodes as a JSON object
IsObjectSpan(s, a, b) ==
    /\ a < b /\ s[a] = "{" /\ s[b] = "}"
    /\ JsonLoads(SubSeq(s, a, b)).ok

ObjectSpans(s) ==
    {sp \in (1..Len(s)) \X (1..Len(s)) : IsObjectSpan(s, sp[1], sp[2])}

\* the objects of s that are not nested in another object of s
TopObjectSpans(s) ==
    {sp \in ObjectSpans(s) :
        \A other \in ObjectSpans(s) :
            (other[1] <= sp[1] /\ sp[2] <= other[2]) => other = sp}

NoOpenBefore(s, a) == \A q \in 1..(a - 1) : s[q] # "{"
NoCloseAfter(s, b) == \A q \in (b + 1)..Len(s) : s[q] # "}"

\* C4 as stated: a reply that contains exactly one balanced JSON object,
\* whatever the prose around it, is parsed to the decoded mapping of that
\* object.
C4_AnyProse ==
    parsed.by = "analysis" =>
        \A sp \in TopObjectSpans(reply) :
            TopObjectSpans(reply) = {sp} =>
                parsed.val = JsonLoads(SubSeq(reply, sp[1], sp[2])).val

\* C4 amended: a reply that contains a JSON object with no "{" in the prose
\* before it and no "}" in the prose after it is parsed by
\* analyze_text_with_ai / analyze_food_image_with_ai to the decoded mapping
\* of that object.
C4_ParseSuccess ==
    parsed.by = "analysis" =>
        \A sp \in ObjectSpans(reply) :
            (NoOpenBefore(reply, sp[1]) /\ NoCloseAfter(reply, sp[2])) =>
                parsed.val = JsonLoads(SubSeq(reply, sp[1], sp[2])).val

\* a nested object with prose on both sides has been parsed
C4_Witness ==
    /\ parsed.by = "analysis"
    /\ reply = <<"x", "{", "k", "}", "x">>
    /\ DOMAIN parsed.val = {"k"}

\* depth of open braces after each prefix; unbalanced when it drops below
\* zero or does not end at zero
RECURSIVE BraceDepthOK(_, _, _)
BraceDepthOK(s, p, depth) ==
    IF depth < 0 THEN FALSE
    ELSE IF p > Len(s) THEN depth = 0
    ELSE BraceDepthOK(s, p + 1,
                      depth + (IF s[p] = "{" THEN 1 ELSE IF s[p] = "}" THEN -1 ELSE 0))

Unbalanced(s) == ~BraceDepthOK(s, 1, 0)

\* the span the parse step decodes (first "{" to last "}") is absent or
\* does not decode
SpanFails(s) ==
    \A a, b \in 1..Len(s) :
        (a < b /\ s[a] = "{" /\ s[b] = "}" /\ NoOpenBefore(s, a) /\ NoCloseAfter(s, b))
            => ~JsonLoads(SubSeq(s, a, b)).ok

\* C5 as stated: for a reply with no "{", with unbalanced braces or whose
\* span does not decode, every parse step returns a mapping with an "error"
\* key and a "raw" key holding the reply unmodified.
C5_RawUnmodified ==
    (parsed.by # "none"
     /\ ((\A p \in 1..Len(reply) : reply[p] # "{") \/ Unbalanced(reply) \/ SpanFails(reply)))
        => /\ {"error", "raw"} \subseteq DOMAIN parsed.val
           /\ parsed.val["raw"] = StrVal(reply)

\* C5 amended: for a reply in which no "}" follows the first "{" or whose
\* first-"{"-to-last-"}" span does not decode, the analysis functions return
\* {"error", "raw"} with raw = the reply stripped of leading and trailing
\* whitespace, and get_medical_info_for_allergen returns {"error"} only.
C5_ParseFailure ==
    SpanFails(reply) =>
        /\ parsed.by = "analysis" =>
              /\ DOMAIN parsed.val = {"error", "raw"}
              /\ parsed.val["raw"] = StrVal(Strip(reply))
        /\ parsed.by = "medical" => DOMAIN parsed.val = {"error"}

\* an undecodable span with surrounding whitespace has been parsed
C5_Witness ==
    /\ parsed.by = "analysis"
    /\ reply = <<" ", "{", "x", "}", " ">>
    /\ parsed.val["raw"] = StrVal(<<"{", "x", "}">>)

=============================================================================
